---- MODULE Spec2Model ----
(***************************************************************************)
(* its_accessor: BaseRedmineAccessor (base_redmine_accessor.py) as a state *)
(* machine.  One accessor instance is live at a time; __init__ replaces it *)
(* by a fresh instance, while attributes of the class object outlive every *)
(* instance.  The Redmine client (redminelib) is an external collaborator: *)
(* each of its calls either throws or returns one of a few sample values.  *)
(*                                                                         *)
(* Python values are modelled as follows.                                  *)
(*   None            << >>                                                 *)
(*   any other v     << v >>          (where None is a possible value)     *)
(*   dict            a function whose domain is the set of keys            *)
(*   list/ResourceSet  a sequence                                          *)
(* An Issue is a record of its attributes, each None or << value >>.       *)
(***************************************************************************)
EXTENDS Integers, Sequences, FiniteSets, TLC

VARIABLES
    constructed,     \* an accessor instance exists
    _project_name,   \* self._project_name
    _project_id,     \* self._project_id
    _user_info,      \* BaseRedmineAccessor._user_info: the dict of the class object
    _priority_info,  \* self._priority_info: None while only the class attribute exists
    _version_info,   \* self._version_info: None while only the class attribute exists
    _issues,         \* self._issues
    _issue,          \* self._issue
    ctor,            \* what the live instance's __init__ fetched itself
    loaded,          \* what the live instance's last completed load_issues fetched
    call             \* the last public call: arguments, outcome, result, effects

vars == << constructed, _project_name, _project_id, _user_info, _priority_info,
           _version_info, _issues, _issue, ctor, loaded, call >>

----------------------------------------------------------------------------
(* Bounds of the model. *)

\* longest list the tracker returns for users, priorities or versions
MaxEntries == 2
\* longest issue list the tracker returns to load_issues
MaxIssues == 3

----------------------------------------------------------------------------
(* Python values. *)

None == << >>

Some(v) == << v >>

EmptyDict == [k \in {} |-> 0]

\* d[k] = v
DictSet(d, k, v) == [j \in DOMAIN d \cup {k} |-> IF j = k THEN v ELSE d[j]]

DictGet_DefaultZero(d, k) == IF k \in DOMAIN d THEN Some(d[k]) ELSE Some(0)

\* d.get(k): the value, or None when k is no key of d
DictGet(d, k) == IF k \in DOMAIN d THEN Some(d[k]) ELSE None

Digit == << "0", "1", "2", "3", "4", "5", "6", "7", "8", "9" >>

str_ZeroPadded(n) ==
    IF n < 10 THEN "0" \o Digit[n + 1]
    ELSE Digit[(n \div 10) + 1] \o Digit[(n % 10) + 1]

\* str(n) of a non-negative int: its decimal digits, no leading zero
RECURSIVE str(_)
str(n) == IF n < 10 THEN Digit[n + 1] ELSE str(n \div 10) \o Digit[(n % 10) + 1]

----------------------------------------------------------------------------
(* Class attributes: the defaults an instance reads until it assigns its   *)
(* own attribute.                                                          *)

Class_project_id == -1

Class_priority_info == EmptyDict

Class_version_info == EmptyDict

\* self._priority_info as Python resolves it: the instance's, else the class's
PriorityInfo == IF _priority_info = None THEN Class_priority_info ELSE _priority_info[1]

\* self._version_info as Python resolves it
VersionInfo == IF _version_info = None THEN Class_version_info ELSE _version_info[1]

\* self._user_info as Python resolves it: no instance ever assigns the
\* attribute, so it is always the dict of the class object
UserInfo == _user_info

----------------------------------------------------------------------------
(* What the tracker may answer.  Entry i of a reference listing is fixed;  *)
(* a listing is a prefix of the entries.                                   *)

User(i) == [lastname |-> "User", firstname |-> Digit[i + 1], id |-> 10 + i]

Priority(i) == [name |-> "P" \o Digit[i + 1], id |-> 20 + i]

Version(i) == [name |-> "v" \o Digit[i + 1], id |-> 30 + i]

UserListings == { [i \in 1..n |-> User(i)] : n \in 0..MaxEntries }

PriorityListings == { [i \in 1..n |-> Priority(i)] : n \in 0..MaxEntries }

VersionListings == { [i \in 1..n |-> Version(i)] : n \in 0..MaxEntries }

DemoProject == [identifier |-> "demo", id |-> 7]

OtherProject == [identifier |-> "other", id |-> 8]

\* a second project carrying the identifier again, with another id
DemoAgain == [identifier |-> "demo", id |-> 9]

ProjectListings == { << >>, << OtherProject >>, << OtherProject, DemoProject >>,
                     << DemoProject, DemoAgain >> }

ProjectNames == { "demo", "ghost" }

\* How a client call ends: it returns a value, or it throws.  A listing is
\* evaluated lazily, so it throws either in the call that builds it ("call")
\* or when the loop over it starts ("iter").
Returns(v) == [throws |-> "no", value |-> v]

Throws(t) == [throws |-> t, value |-> None]

\* the answers of a call that returns a listing
Listings(values) == { Throws("call"), Throws("iter") } \cup { Returns(v) : v \in values }

\* the answers of any other call
Answers(values) == { Throws("call") } \cup { Returns(v) : v \in values }

\* the issues of a listing: three times of update, and one id met twice
ListedIssues ==
    { [id |-> 1, subject |-> "Fix bug", updated_on |-> 1],
      [id |-> 2, subject |-> "Add feature", updated_on |-> 2],
      [id |-> 1, subject |-> "Fix bug again", updated_on |-> 3] }

RECURSIVE SeqsUpTo(_, _)
SeqsUpTo(S, n) ==
    IF n = 0 THEN { << >> }
    ELSE LET shorter == SeqsUpTo(S, n - 1)
         IN  shorter \cup { Append(q, x) : q \in shorter, x \in S }

IssueListings == SeqsUpTo(ListedIssues, MaxIssues)

\* ids the tracker assigns to a created issue
CreatedIds == { 101, 102 }

----------------------------------------------------------------------------
(* Issues and update requests. *)

\* input label, Issue attribute, and how the value is obtained, in the order
\* _set_issue_payload goes through them.  The labels of the source are
\* Japanese; they are written here by their English names:
\*   parent ticket  親チケット      due date         期日
\*   subject        題名            estimated hours  予定工数
\*   assignee       担当者          total estimated  合計予定工数
\*   target version 対象バージョン  total spent      合計作業時間
\*   start date     開始日          progress         進捗率
\*   priority       優先度          description      説明
FieldMap == <<
    [key |-> "parent ticket",   attr |-> "parent_id",             via |-> "direct"],
    [key |-> "subject",         attr |-> "subject",               via |-> "direct"],
    [key |-> "assignee",        attr |-> "assigned_to_id",        via |-> "user"],
    [key |-> "target version",  attr |-> "fixed_version_id",      via |-> "version"],
    [key |-> "start date",      attr |-> "start_date",            via |-> "direct"],
    [key |-> "due date",        attr |-> "due_date",              via |-> "direct"],
    [key |-> "estimated hours", attr |-> "estimated_hours",       via |-> "direct"],
    [key |-> "total estimated", attr |-> "total_estimated_hours", via |-> "direct"],
    [key |-> "total spent",     attr |-> "total_spent_hours",     via |-> "direct"],
    [key |-> "progress",        attr |-> "done_ratio",            via |-> "direct"],
    [key |-> "priority",        attr |-> "priority_id",           via |-> "priority"],
    [key |-> "description",     attr |-> "description",           via |-> "direct"] >>

Fields == 1..Len(FieldMap)

MappedKeys == { FieldMap[i].key : i \in Fields }

MappedAttrs == { FieldMap[i].attr : i \in Fields }

\* an Issue none of whose attributes is set, as redmine.issue.new() returns it
NewIssue == [a \in MappedAttrs \cup {"project", "id", "project_id"} |-> None]

\* an Issue read from the tracker earlier: every mapped attribute has a value
StoredIssue(project, id) ==
    [a \in DOMAIN NewIssue |->
        CASE a = "project" -> project
          [] a = "id" -> id
          [] a = "project_id" -> None
          [] a \in {"assigned_to_id", "fixed_version_id", "priority_id"} -> Some(99)
          [] OTHER -> Some("old")]

\* the Issue objects a caller hands to update_issue: with or without a
\* project reference, with or without an id, blank or filled
SampleIssues ==
    { StoredIssue(p, i) : p \in {None, Some(7), Some(8)}, i \in {None, Some(1), Some(12)} }
    \cup { NewIssue }

\* a value a request may carry under a label: one the tracker knows ...
Filled(i) ==
    CASE FieldMap[i].via = "user" -> "User 1"
      [] FieldMap[i].via = "version" -> "v1"
      [] FieldMap[i].via = "priority" -> "P1"
      [] OTHER -> "new"

\* ... and another: a name in no reference table, a blank that is not empty
Other(i) == IF FieldMap[i].via = "direct" THEN " " ELSE "Nobody"

\* the request with every label present: label '#' carries h, label i carries v[i]
Request(h, v) ==
    [k \in MappedKeys \cup {"#"} |->
        IF k = "#" THEN h ELSE v[CHOOSE i \in Fields : FieldMap[i].key = k]]

\* d without the key k
Without(d, k) == [j \in DOMAIN d \ {k} |-> d[j]]

AllEmpty == [i \in Fields |-> ""]

AllFilled == [i \in Fields |-> Filled(i)]

\* the requests callers send: every label empty or every label filled, with
\* any id under '#' or no '#' at all; and those two with one label changed
\* to another value, emptied, or left out
SampleData ==
    LET bases == { AllEmpty, AllFilled }
    IN  { Request(h, b) : h \in {"", "1", "01", "12"}, b \in bases }
        \cup { Without(Request("", b), "#") : b \in bases }
        \cup UNION { { Request("", [b EXCEPT ![i] = x]) :
                           x \in {"", Filled(i), Other(i)} } :
                       b \in bases, i \in Fields }
        \cup { Without(Request("", b), FieldMap[i].key) : b \in bases, i \in Fields }

----------------------------------------------------------------------------
(* Protected methods. *)

\* f'{user.lastname} {user.firstname}'
fullname(user) == user.lastname \o " " \o user.firstname

\* for user in allusers: self._user_info[fullname] = user.id
RECURSIVE UserLoop(_, _, _)
UserLoop(d, allusers, i) ==
    IF i > Len(allusers) THEN d
    ELSE UserLoop(DictSet(d, fullname(allusers[i]), allusers[i].id), allusers, i + 1)

\* for x in listing: d[x.name] = x.id   (priorities, versions)
RECURSIVE NameLoop(_, _, _)
NameLoop(d, listing, i) ==
    IF i > Len(listing) THEN d
    ELSE NameLoop(DictSet(d, listing[i].name, listing[i].id), listing, i + 1)

\* _get_user_info: the dict self._user_info names after the fetch answered r.
\* The entries go into the dict that is there; an exception is swallowed.
_get_user_info(d, r) == IF r.throws # "no" THEN d ELSE UserLoop(d, r.value, 1)

\* _get_priority_info: self._priority_info after the fetch answered r.
\* The attribute is bound to a new dict once the filter call has returned.
_get_priority_info(cur, r) ==
    CASE r.throws = "call" -> cur
      [] r.throws = "iter" -> Some(EmptyDict)
      [] OTHER -> Some(NameLoop(EmptyDict, r.value, 1))

\* _get_version_info: self._version_info after the fetch answered r, and
\* whether the exception left the method (nothing catches it there)
_get_version_info(cur, r) ==
    CASE r.throws = "call" -> [info |-> cur, raised |-> TRUE]
      [] r.throws = "iter" -> [info |-> Some(EmptyDict), raised |-> TRUE]
      [] OTHER -> [info |-> Some(NameLoop(EmptyDict, r.value, 1)), raised |-> FALSE]

\* for project in all_projects: if project.identifier == project_name: return project.id
RECURSIVE ProjectScan(_, _, _)
ProjectScan(all_projects, project_name, i) ==
    IF i > Len(all_projects) THEN -1
    ELSE IF all_projects[i].identifier = project_name THEN all_projects[i].id
    ELSE ProjectScan(all_projects, project_name, i + 1)

\* _get_project_id: the id, or -1 when the listing throws or nothing matches
_get_project_id(project_name, r) ==
    IF r.throws # "no" THEN -1 ELSE ProjectScan(r.value, project_name, 1)

\* the value one field of the request puts into the Issue
FieldValue(i, text) ==
    CASE FieldMap[i].via = "user" -> DictGet(UserInfo, text)
      [] FieldMap[i].via = "version" -> DictGet(VersionInfo, text)
      [] FieldMap[i].via = "priority" -> DictGet(PriorityInfo, text)
      [] OTHER -> Some(text)

IsSet_Always(text) == TRUE

\* input_data[key] != ''
IsSet(text) == text # ""

\* the statement of field i: input_data[key] raises KeyError when the key is
\* absent; the attribute is assigned when the value is not ''
RECURSIVE PayloadFrom(_, _, _)
PayloadFrom(issue, input_data, i) ==
    IF i > Len(FieldMap) THEN [issue |-> issue, raised |-> None]
    ELSE IF FieldMap[i].key \notin DOMAIN input_data
         THEN [issue |-> issue, raised |-> Some(FieldMap[i].key)]
    ELSE IF IsSet(input_data[FieldMap[i].key])
         THEN PayloadFrom([issue EXCEPT ![FieldMap[i].attr] =
                               FieldValue(i, input_data[FieldMap[i].key])],
                          input_data, i + 1)
    ELSE PayloadFrom(issue, input_data, i + 1)

\* _set_issue_payload: the Issue as the method leaves it (it is changed in
\* place), and the key whose lookup raised KeyError, if one did
_set_issue_payload(input_issue, input_data) ==
    PayloadFrom(IF _project_id # -1
                THEN [input_issue EXCEPT !["project_id"] = Some(_project_id)]
                ELSE input_issue,
                input_data, 1)

----------------------------------------------------------------------------
(* Public methods, as what a call leaves behind: how it ended, what it     *)
(* returned, how far it got, and the Issue it worked on.  A call ends      *)
(* "early" (before _set_issue_payload, or in a method that has none), in   *)
(* the "payload", or after it called "save".                               *)

Returned(retval, stage, out) ==
    [outcome |-> "return", exc |-> "", retval |-> retval, stage |-> stage, out |-> out]

Raised(exc, stage, out) ==
    [outcome |-> "raise", exc |-> exc, retval |-> None, stage |-> stage, out |-> out]

ProjectMismatch_WhenResolved(input_issue) ==
    /\ input_issue.project # None
    /\ _project_id # -1
    /\ _project_id # input_issue.project[1]

\* hasattr(input_issue, 'project') and self._project_id != input_issue.project.id
ProjectMismatch(input_issue) ==
    /\ input_issue.project # None
    /\ _project_id # input_issue.project[1]

\* hasattr(input_issue, 'id') and input_data['#'] != str(input_issue.id),
\* reached when input_data['#'] != ''
IdMismatch(input_issue, input_data) ==
    /\ input_data["#"] # ""
    /\ input_issue.id # None
    /\ input_data["#"] # str(input_issue.id[1])

\* update_issue, with rsave the answer of output_issue.save()
update_issue(input_issue, input_data, rsave) ==
    IF ProjectMismatch(input_issue) THEN Returned(FALSE, "early", input_issue)
    ELSE IF "#" \notin DOMAIN input_data THEN Raised("KeyError", "early", input_issue)
    ELSE IF IdMismatch(input_issue, input_data) THEN Returned(FALSE, "early", input_issue)
    ELSE LET payload == _set_issue_payload(input_issue, input_data)
         IN  IF payload.raised # None THEN Raised("KeyError", "payload", payload.issue)
             ELSE IF rsave.throws # "no" THEN Returned(FALSE, "save", payload.issue)
             ELSE Returned(TRUE, "save", payload.issue)

SaveNew_Zero(rsave) == IF rsave.throws # "no" THEN 0 ELSE rsave.value

\* try: created_issue = output_issue.save(); return created_issue.id
\* except Exception: return -1
SaveNew(rsave) == IF rsave.throws # "no" THEN -1 ELSE rsave.value

\* create_issue, with rnew the answer of redmine.issue.new() and rsave the
\* answer of output_issue.save(): the id of the created issue
create_issue(issue_data, rnew, rsave) ==
    IF rnew.throws # "no" THEN Raised("ClientError", "early", None)
    ELSE LET payload == _set_issue_payload(rnew.value, issue_data)
         IN  IF payload.raised # None THEN Raised("KeyError", "payload", payload.issue)
             ELSE Returned(SaveNew(rsave), "save", payload.issue)

\* load_issues, with r the answer of issue.filter(): nothing catches what it throws
load_issues(r) ==
    IF r.throws # "no" THEN [issues |-> _issues, res |-> Raised("ClientError", "early", None)]
    ELSE [issues |-> Some(r.value), res |-> Returned(r.value, "early", None)]

\* load_issue, with r the answer of issue.get(issue_id)
load_issue(issue_id, r) ==
    IF r.throws # "no" THEN [issue |-> _issue, res |-> Raised("ClientError", "early", None)]
    ELSE [issue |-> Some(r.value), res |-> Returned(r.value, "early", None)]

PyMax_Last(stamps, i, best) ==
    IF Len(stamps) = 0 THEN None ELSE Some(stamps[Len(stamps)])

\* max(iterable, default=None): the largest item, None when there is none
RECURSIVE PyMax(_, _, _)
PyMax(stamps, i, best) ==
    IF i > Len(stamps) THEN best
    ELSE IF best = None \/ stamps[i] > best[1] THEN PyMax(stamps, i + 1, Some(stamps[i]))
    ELSE PyMax(stamps, i + 1, best)

\* latest_update: iterating self._issues raises TypeError while it is None
latest_update ==
    IF _issues = None THEN Raised("TypeError", "early", None)
    ELSE Returned(PyMax([i \in DOMAIN _issues[1] |-> _issues[1][i].updated_on], 1, None),
                  "early", None)

\* d.setdefault(k, v): an existing key keeps its value.  The id is an int and
\* the subject a str already, so int(issue.id) and str(issue.subject) are
\* the values themselves.
SetDefault(d, k, v) == IF k \in DOMAIN d THEN d ELSE DictSet(d, k, v)

RECURSIVE SubjectLoop(_, _, _)
SubjectLoop(d, issues, i) ==
    IF i > Len(issues) THEN d
    ELSE SubjectLoop(SetDefault(d, issues[i].id, issues[i].subject), issues, i + 1)

\* idtosubject_dict: iterating self._issues raises TypeError while it is None
idtosubject_dict ==
    IF _issues = None THEN Raised("TypeError", "early", None)
    ELSE Returned(SubjectLoop(EmptyDict, _issues[1], 1), "early", None)

\* load_project, with rproj the answer of project.all() and rver the answer
\* of version.filter(): the attributes it assigns and what it returns
load_project(rproj, rver) ==
    LET project_id == _get_project_id(_project_name, rproj)
        version == _get_version_info(_version_info, rver)
    IN  [project_id |-> project_id, version_info |-> version.info,
         retval |-> ~version.raised]

----------------------------------------------------------------------------
(* The state machine. *)

\* the record of a call: its arguments, what the client answered to the
\* requests that decided it, and its result
Call(op, issue, data, client, res) ==
    [op |-> op, issue |-> issue, data |-> data, client |-> client,
     outcome |-> res.outcome, exc |-> res.exc, retval |-> res.retval,
     mapped |-> res.stage \in {"payload", "save"}, saved |-> res.stage = "save",
     out |-> res.out]

\* no call is in progress and no result is waiting for the caller
NoCall == Call("", None, None, None, Returned(None, "early", None))

Idle == call.op = ""

Init ==
    /\ constructed = FALSE
    /\ _project_name = ""
    /\ _project_id = Class_project_id
    /\ _user_info = EmptyDict
    /\ _priority_info = None
    /\ _version_info = None
    /\ _issues = None
    /\ _issue = None
    /\ ctor = [users_ok |-> FALSE, priorities_ok |-> FALSE, users |-> {}]
    /\ loaded = None
    /\ call = NoCall

\* BaseRedmineAccessor(project_name, url, key): a fresh instance, whose
\* attributes are those of the class until it assigns its own
Construct ==
    /\ Idle
    /\ \E project_name \in ProjectNames, ru \in Listings(UserListings),
       rp \in Listings(PriorityListings) :
        /\ constructed' = TRUE
        /\ _project_name' = project_name
        /\ _project_id' = Class_project_id
        /\ _user_info' = _get_user_info(_user_info, ru)
        /\ _priority_info' = _get_priority_info(None, rp)
        /\ _version_info' = None
        /\ _issues' = None
        /\ _issue' = None
        /\ ctor' = [users_ok |-> ru.throws = "no", priorities_ok |-> rp.throws = "no",
                    users |-> IF ru.throws = "no"
                              THEN { fullname(ru.value[i]) : i \in DOMAIN ru.value }
                              ELSE {}]
        /\ loaded' = None
        /\ call' = Call("__init__", None, None, None, Returned(None, "early", None))

LoadProject ==
    /\ Idle
    /\ constructed
    /\ \E rproj \in Answers(ProjectListings), rver \in Listings(VersionListings) :
        LET res == load_project(rproj, rver)
        IN  /\ _project_id' = res.project_id
            /\ _version_info' = res.version_info
            /\ call' = Call("load_project", None, None,
                            [project |-> rproj.throws, version |-> rver.throws],
                            Returned(res.retval, "early", None))
    /\ UNCHANGED << constructed, _project_name, _user_info, _priority_info,
                    _issues, _issue, ctor, loaded >>

UpdateIssue ==
    /\ Idle
    /\ constructed
    /\ \E input_issue \in SampleIssues, input_data \in SampleData,
          rsave \in Answers({TRUE}) :
        LET res == update_issue(input_issue, input_data, rsave)
        IN  call' = Call("update_issue", input_issue, input_data,
                         IF res.stage = "save" THEN rsave ELSE None, res)
    /\ UNCHANGED << constructed, _project_name, _project_id, _user_info,
                    _priority_info, _version_info, _issues, _issue, ctor, loaded >>

CreateIssue ==
    /\ Idle
    /\ constructed
    /\ \E issue_data \in SampleData, rnew \in Answers({NewIssue}),
          rsave \in Answers(CreatedIds) :
        LET res == create_issue(issue_data, rnew, rsave)
        IN  call' = Call("create_issue", None, issue_data,
                         IF res.stage = "save" THEN rsave ELSE None, res)
    /\ UNCHANGED << constructed, _project_name, _project_id, _user_info,
                    _priority_info, _version_info, _issues, _issue, ctor, loaded >>

\* The caller takes the result of the call; calls are synchronous, so the
\* next one starts only then.
TakeResult ==
    /\ ~Idle
    /\ call' = NoCall
    /\ UNCHANGED << constructed, _project_name, _project_id, _user_info,
                    _priority_info, _version_info, _issues, _issue, ctor, loaded >>

LoadIssues ==
    /\ Idle
    /\ constructed
    /\ \E r \in Answers(IssueListings) :
        LET got == load_issues(r)
        IN  /\ _issues' = got.issues
            /\ loaded' = IF r.throws = "no" THEN Some(r.value) ELSE loaded
            /\ call' = Call("load_issues", None, None, None, got.res)
    /\ UNCHANGED << constructed, _project_name, _project_id, _user_info,
                    _priority_info, _version_info, _issue, ctor >>

LoadIssue ==
    /\ Idle
    /\ constructed
    /\ \E issue_id \in {1, 12} :
        \E r \in Answers({ StoredIssue(Some(7), Some(issue_id)) }) :
            LET got == load_issue(issue_id, r)
            IN  /\ _issue' = got.issue
                /\ call' = Call("load_issue", None, None, None, got.res)
    /\ UNCHANGED << constructed, _project_name, _project_id, _user_info,
                    _priority_info, _version_info, _issues, ctor, loaded >>

LatestUpdate ==
    /\ Idle
    /\ constructed
    /\ call' = Call("latest_update", None, None, None, latest_update)
    /\ UNCHANGED << constructed, _project_name, _project_id, _user_info,
                    _priority_info, _version_info, _issues, _issue, ctor, loaded >>

IdToSubjectDict ==
    /\ Idle
    /\ constructed
    /\ call' = Call("idtosubject_dict", None, None, None, idtosubject_dict)
    /\ UNCHANGED << constructed, _project_name, _project_id, _user_info,
                    _priority_info, _version_info, _issues, _issue, ctor, loaded >>

\* the operations that resolve the project and write issues; none of them
\* reads or assigns _issues or _issue
Next == Construct \/ LoadProject \/ UpdateIssue \/ CreateIssue \/ TakeResult

Spec == Init /\ [][Next]_vars

\* the operations that read issues; none of them reads _project_id or a
\* reference table
NextRead ==
    Construct \/ LoadIssues \/ LoadIssue \/ LatestUpdate \/ IdToSubjectDict \/ TakeResult

SpecRead == Init /\ [][NextRead]_vars

----------------------------------------------------------------------------
(* The properties.  Each is stated on the record of the last call and on   *)
(* the accessor's state, in terms of their own: the decimal form of an id  *)
(* and the reach of a call are written out here, not taken from the        *)
(* definitions above.                                                      *)

IsUpdate == call.op = "update_issue"

IsCreate == call.op = "create_issue"

\* the decimal form of the ids the sample issues carry
Decimal(n) == CASE n = 1 -> "1" [] n = 12 -> "12"

\* the issue carries a project reference whose id is not the accessor's
RefersElsewhere == call.issue.project # None /\ call.issue.project[1] # _project_id

\* the request carries a non-empty '#' that is not the decimal form of the issue's id
CarriesOtherId ==
    /\ "#" \in DOMAIN call.data
    /\ call.data["#"] # ""
    /\ call.issue.id # None
    /\ call.data["#"] # Decimal(call.issue.id[1])

\* every mapped label is in the request, with the empty string
EveryLabelEmpty == \A k \in MappedKeys : k \in DOMAIN call.data /\ call.data[k] = ""

EveryLabelPresent == MappedKeys \subseteq DOMAIN call.data

\* the mapped attributes of the issue are what they were before the call
MappedAttrsKept == \A a \in MappedAttrs : call.out[a] = call.issue[a]

\* C1: every public operation ends by returning a value; no exception
\* reaches the caller, whatever the client answers and whatever the request.
C1_EveryCallReturns == call.outcome = "return"

\* C2: update_issue returns false without calling save whenever the issue
\* carries a project reference whose id differs from _project_id, also while
\* _project_id is -1.
C2_ProjectMismatchRejected ==
    (IsUpdate /\ RefersElsewhere) =>
        (call.outcome = "return" /\ call.retval = FALSE /\ ~call.saved)

\* an issue of project 7 is handed to an accessor that has no project id yet,
\* with a request that passes the id check: the update is refused
C2_Witness ==
    /\ IsUpdate
    /\ _project_id = -1
    /\ call.issue.project = Some(7)
    /\ call.issue.id = Some(1)
    /\ "#" \in DOMAIN call.data /\ call.data["#"] = "1"
    /\ call.retval = FALSE
    /\ ~call.saved

\* C3: update_issue returns false without calling save whenever
\* issue_data['#'] is a non-empty string other than str(issue.id).
C3_IdMismatchRejected ==
    (IsUpdate /\ CarriesOtherId) =>
        (call.outcome = "return" /\ call.retval = FALSE /\ ~call.saved)

\* issue 1 of the accessor's project is updated with '#' = '01': refused by
\* the id check, the project check having passed
C3_Witness ==
    /\ IsUpdate
    /\ call.issue.project = Some(7) /\ _project_id = 7
    /\ call.issue.id = Some(1)
    /\ "#" \in DOMAIN call.data /\ call.data["#"] = "01"
    /\ call.retval = FALSE
    /\ ~call.saved

\* C4: create_issue returns the id persistence assigned when save succeeds
\* and -1 when save throws, and raises in neither case.
C4_CreateReturnsIdOrMinusOne ==
    (IsCreate /\ call.saved) =>
        /\ call.outcome = "return"
        /\ call.client.throws = "no" => call.retval = call.client.value
        /\ call.client.throws # "no" => call.retval = -1

\* a create whose save succeeded returned the id assigned, here 102
C4_Witness ==
    /\ IsCreate
    /\ call.saved
    /\ call.client.throws = "no" /\ call.client.value = 102
    /\ call.outcome = "return"
    /\ call.retval = 102

\* a create whose save threw returned -1
C4_WitnessSaveThrows ==
    /\ IsCreate
    /\ call.saved
    /\ call.client.throws # "no"
    /\ call.outcome = "return"
    /\ call.retval = -1

\* the request passes the checks update_issue makes before it maps the fields
PassesChecks == ~RefersElsewhere /\ "#" \in DOMAIN call.data /\ ~CarriesOtherId

\* C5 as claimed: with every mapped label empty, update_issue leaves every
\* mapped attribute as it was, and sets project_id to _project_id exactly
\* when that id is not -1.  Stated for the requests that carry '#', which
\* update_issue reads before it maps anything.
C5_AllEmptyForcesProjectId ==
    (IsUpdate /\ EveryLabelEmpty /\ "#" \in DOMAIN call.data) =>
        /\ MappedAttrsKept
        /\ call.out.project_id =
               IF _project_id # -1 THEN Some(_project_id) ELSE call.issue.project_id

\* C5 as amended: with every mapped label empty, update_issue leaves every
\* mapped attribute as it was; it sets project_id to _project_id exactly when
\* that id is not -1 and the call passes the project check and the id check
\* (with '#' present), and leaves project_id too as it was otherwise.
C5_AllEmptyKeepsAttributes ==
    (IsUpdate /\ EveryLabelEmpty) =>
        /\ MappedAttrsKept
        /\ call.out.project_id =
               IF PassesChecks /\ _project_id # -1
               THEN Some(_project_id) ELSE call.issue.project_id

\* issue 1 of the accessor's project 7, every attribute filled, is updated
\* with an all-empty request: it is saved with project_id 7 and the rest kept
C5_Witness ==
    /\ IsUpdate
    /\ EveryLabelEmpty
    /\ _project_id = 7
    /\ call.issue = StoredIssue(Some(7), Some(1))
    /\ call.saved
    /\ call.retval = TRUE
    /\ call.out.project_id = Some(7)
    /\ call.out.subject = Some("old")

\* the Issue a call started from
Before == IF IsCreate THEN NewIssue ELSE call.issue

\* C6: in the field mapping, each field on its own: a label present with a
\* non-empty value sets its attribute, and a label absent from the request
\* leaves its attribute as it was while the other fields are still mapped.
C6_AbsentLabelSkipped ==
    ((IsUpdate \/ IsCreate) /\ call.mapped) =>
        /\ call.outcome = "return"
        /\ \A i \in Fields :
              LET k == FieldMap[i].key
                  a == FieldMap[i].attr
              IN  IF k \in DOMAIN call.data
                  THEN call.data[k] # "" => call.out[a] = FieldValue(i, call.data[k])
                  ELSE call.out[a] = Before[a]

\* C7: an accessor whose user fetch and priority fetch both failed has an
\* empty user table and an empty priority table, and the tables of an
\* accessor hold only what that accessor fetched.
C7_TablesAreTheInstancesOwn ==
    constructed =>
        /\ (~ctor.users_ok /\ ~ctor.priorities_ok) =>
               (DOMAIN UserInfo = {} /\ DOMAIN PriorityInfo = {})
        /\ DOMAIN UserInfo \subseteq ctor.users

\* C8: load_project returns false whenever the project listing throws, no
\* identifier matches (the id is -1) or the version listing throws; it
\* returns true only with the id resolved and the version table loaded.
C8_FalseUnlessResolved ==
    call.op = "load_project" =>
        /\ (call.client.project # "no" \/ _project_id = -1 \/ call.client.version # "no")
               => call.retval = FALSE
        /\ call.retval = TRUE =>
               (_project_id # -1 /\ call.client.version = "no" /\ _version_info # None)

\* C9: an assignee that is not empty and is no key of the user table makes
\* the field mapping set assigned_to_id to None; the lookup does not raise
\* and the previous assigned_to_id does not stay.  (The mapping gets to the
\* assignee when the two labels before it are in the request.)
C9_UnknownAssigneeGivesNone ==
    ( /\ IsUpdate \/ IsCreate
      /\ call.mapped
      /\ {"parent ticket", "subject", "assignee"} \subseteq DOMAIN call.data
      /\ call.data["assignee"] # ""
      /\ call.data["assignee"] \notin DOMAIN _user_info ) =>
        /\ call.out.assigned_to_id = None
        /\ EveryLabelPresent => call.outcome = "return"

\* an issue assigned to user 99 is updated with assignee 'Nobody' while the
\* user table knows 'User 1' only: it is saved with assigned_to_id None
C9_Witness ==
    /\ IsUpdate
    /\ DOMAIN _user_info = {"User 1"}
    /\ call.issue.assigned_to_id = Some(99)
    /\ "assignee" \in DOMAIN call.data /\ call.data["assignee"] = "Nobody"
    /\ call.saved
    /\ call.retval = TRUE
    /\ call.out.assigned_to_id = None

\* the "updated_on" stamps of the issues load_issues stored last
LoadedStamps == { loaded[1][i].updated_on : i \in DOMAIN loaded[1] }

\* C10: latest_update returns None when the loaded issue set is empty, and
\* else the largest "updated_on" of the issues load_issues stored last.
C10_LatestUpdateIsMax ==
    (call.op = "latest_update" /\ loaded # None) =>
        /\ call.outcome = "return"
        /\ LoadedStamps = {} => call.retval = None
        /\ LoadedStamps # {} =>
              /\ call.retval # None
              /\ call.retval[1] \in LoadedStamps
              /\ \A t \in LoadedStamps : t <= call.retval[1]

\* three issues were loaded, the one updated last in the middle: its time
\* of update is returned
C10_Witness ==
    /\ call.op = "latest_update"
    /\ loaded # None
    /\ Len(loaded[1]) = 3
    /\ loaded[1][1].updated_on = 2
    /\ loaded[1][2].updated_on = 3
    /\ loaded[1][3].updated_on = 1
    /\ call.retval = Some(3)

\* nothing was listed: None is returned
C10_WitnessEmpty ==
    /\ call.op = "latest_update"
    /\ loaded = Some(<< >>)
    /\ call.outcome = "return"
    /\ call.retval = None

====
